---- MODULE Spec2Model ----
(***************************************************************************)
(* pbipandas: the bulk get_all_... operations of PowerBIClient (client.py) *)
(* and BulkClient (bulks/bulk_client.py), with the point queries they call *)
(* and the token acquisition of get_header.                                *)
(*                                                                         *)
(* A table (pandas DataFrame) is a sequence of rows; a row is a function   *)
(* from column names to cell values; every cell value is a string.  The    *)
(* column set of a table is the union of its rows' columns, so the table   *)
(* pd.DataFrame() has no rows and no columns.                              *)
(***************************************************************************)
EXTENDS Integers, Sequences, FiniteSets, TLC

\* ---------------------------------------------------------------- bounds
\* Largest number of workspaces the upstream listing returns.
MaxWorkspaces == 2
\* Largest number of rows a child listing (users, sources, ...) returns.
MaxRows == 2

\* ------------------------------------------------------------ cell values
NaN == "<NaN>"                \* pandas' missing value
PyTrue == "<bool True>"       \* the JSON/Python boolean true, not a string
None == "<None>"              \* Python None

\* Identifiers and names the upstream service uses (test data).
WorkspaceIds == <<"W1", "W2", "W3", "W4">>
WorkspaceNames == <<"Finance", "Marketing", "Audit", "Legal">>
ObjectIds == << <<"O11", "O12">>, <<"O21", "O22">>, <<"O31", "O32">>, <<"O41", "O42">> >>
RowIds == <<"r1", "r2", "r3", "r4">>
Tokens == <<"tokA", "tokB">>

\* A string as the sequence of its words: the decomposition str.contains
\* works on (substring test at word granularity).
Words(s) ==
  CASE s = "Sales" -> <<"Sales">>
    [] s = "Usage Metrics Report" -> <<"Usage", "Metrics", "Report">>
    [] s = "Team Usage Metrics" -> <<"Team", "Usage", "Metrics">>
    [] s = "Usage Report" -> <<"Usage", "Report">>
    [] s = "Usage Metrics" -> <<"Usage", "Metrics">>
    [] OTHER -> <<s>>

\* ---------------------------------------------------------------- tables
EmptyDF == <<>>

Columns(df) == UNION {DOMAIN df[k] : k \in 1..Len(df)}

IsEmpty(df) == Len(df) = 0 \/ Columns(df) = {}

\* A row widened to a column set: absent cells are NaN.
Fill(row, cols) == [c \in cols |-> IF c \in DOMAIN row THEN row[c] ELSE NaN]

\* pd.DataFrame(list of dicts): the columns are the union of the keys.
FromRecords(recs) == [k \in 1..Len(recs) |-> Fill(recs[k], Columns(recs))]

\* df[col] = value, broadcast to every row (overwrites an existing column).
Assign_KeepExisting(df, col, v) ==
  [k \in 1..Len(df) |->
     [c \in DOMAIN df[k] \cup {col} |-> IF c \in DOMAIN df[k] THEN df[k][c] ELSE v]]

Assign(df, col, v) ==
  [k \in 1..Len(df) |->
     [c \in DOMAIN df[k] \cup {col} |-> IF c = col THEN v ELSE df[k][c]]]

\* pd.concat([a, b]): rows of a, then rows of b, columns united.
Concat_Prepend(a, b) ==
  LET cols == Columns(a) \cup Columns(b)
      all == b \o a
  IN [k \in 1..Len(all) |-> Fill(all[k], cols)]

Concat_DropDuplicates(a, b) ==
  LET ids == {"id", "objectId", "datasourceId", "Name"}
      seen(row) == \E k \in 1..Len(a) :
                     \E c \in ids \cap DOMAIN row \cap DOMAIN a[k] : a[k][c] = row[c]
      cols == Columns(a) \cup Columns(b)
      all == a \o SelectSeq(b, LAMBDA row : ~seen(row))
  IN [k \in 1..Len(all) |-> Fill(all[k], cols)]

Concat_CommonColumns(a, b) ==
  LET cols == IF Len(a) = 0 THEN Columns(b)
              ELSE IF Len(b) = 0 THEN Columns(a) ELSE Columns(a) \cap Columns(b)
      all == a \o b
  IN [k \in 1..Len(all) |-> [c \in cols |-> all[k][c]]]

Concat(a, b) ==
  LET cols == Columns(a) \cup Columns(b)
      all == a \o b
  IN [k \in 1..Len(all) |-> Fill(all[k], cols)]

\* Series.str.contains(pat): pat occurs in s (as consecutive words).
StrContains(s, pat) ==
  LET ws == Words(s)
      wp == Words(pat)
  IN \E k \in 0..(Len(ws) - Len(wp)) :
       \A j \in 1..Len(wp) : ws[k + j] = wp[j]

\* df[df[col] == v]: the rows whose cell equals v, in order.
RECURSIVE SelectEq(_, _, _)
SelectEq(df, col, v) ==
  IF Len(df) = 0 THEN <<>>
  ELSE (IF Head(df)[col] = v THEN <<Head(df)>> ELSE <<>>) \o SelectEq(Tail(df), col, v)

\* df[~df[col].str.contains(pat)]: the rows whose cell does not contain pat.
RECURSIVE SelectNotContains(_, _, _)
SelectNotContains(df, col, pat) ==
  IF Len(df) = 0 THEN <<>>
  ELSE (IF StrContains(Head(df)[col], pat) THEN <<>> ELSE <<Head(df)>>)
       \o SelectNotContains(Tail(df), col, pat)

\* ------------------------------------------------------- upstream service
\* What one HTTP exchange gives: the token request fails (get_header raises),
\* the data request fails in transport, or an HTTP response arrives with a
\* status, a body that has the expected envelope or not, and n records.
TokenFault == [kind |-> "token_fault", status |-> 0, envelope |-> FALSE, n |-> 0]
TransportFault == [kind |-> "transport_fault", status |-> 0, envelope |-> FALSE, n |-> 0]
Http(status, envelope, n) == [kind |-> "http", status |-> status, envelope |-> envelope, n |-> n]
NotFound == Http(404, FALSE, 0)
Malformed == Http(200, FALSE, 0)
Ok(n) == Http(200, TRUE, n)

\* A parent object (dataset, dataflow or report) as the upstream holds it: its
\* name, its refreshable flag (datasets only) and the answer of its child
\* listings.
Object(name, flag, child) == [name |-> name, flag |-> flag, child |-> child]

\* The answers a per-workspace listing can give: a failure, or 200 with the
\* objects of the workspace.
ObjectLists ==
  { <<>>,
    <<Object("Sales", "True", Ok(MaxRows))>>,
    <<Object("Team Usage Metrics", "True", Ok(1))>>,
    <<Object("Sales", "True", Ok(0))>>,
    <<Object("Sales", "True", NotFound)>>,
    <<Object("Sales", "True", Malformed)>>,
    <<Object("Sales", "True", TransportFault)>>,
    <<Object("Sales", "True", TokenFault)>>,
    <<Object("Usage Metrics Report", "True", Ok(1))>>,
    <<Object("Usage Report", "True", Ok(1))>>,
    <<Object("Sales", "False", Ok(1))>>,
    <<Object("Sales", "true", Ok(1))>>,
    <<Object("Sales", PyTrue, Ok(1))>>,
    <<Object("Sales", NaN, Ok(1))>>,
    <<Object("Sales", "True", Ok(1)), Object("Usage Metrics Report", "True", Ok(1))>>,
    <<Object("Sales", "True", TransportFault), Object("Sales", "True", Ok(MaxRows))>> }

WorkspaceAnswers ==
  {[resp |-> r, objects |-> <<>>] : r \in {TokenFault, TransportFault, NotFound, Malformed}}
  \cup {[resp |-> Ok(Len(l)), objects |-> l] : l \in ObjectLists}

\* The answers the workspace listing can give: a failure, or 200 with the
\* first n workspaces, the highest identifier first.
ListingAnswers ==
  {TokenFault, TransportFault, NotFound, Malformed} \cup {Ok(n) : n \in 0..MaxWorkspaces}

\* The answer is a 200 with the expected envelope; the answer makes the point
\* query raise.
Succeeds(a) == a.kind = "http" /\ a.status = 200 /\ a.envelope
Faults(a) == a.kind \in {"token_fault", "transport_fault"}
             \/ (a.kind = "http" /\ a.status = 200 /\ ~a.envelope)

\* An answer the upstream has not given yet in the current upstream state.
Unknown == [kind |-> "unknown", status |-> 0, envelope |-> FALSE, n |-> 0]
UnknownWorkspace == [resp |-> Unknown, objects |-> <<>>]
UnknownUpstream == [listing |-> Unknown, ws |-> [w \in 1..MaxWorkspaces |-> UnknownWorkspace]]

WsIndex(id) == CHOOSE k \in 1..Len(WorkspaceIds) : WorkspaceIds[k] = id

WorkspaceRecords(n) ==
  [k \in 1..n |-> [id |-> WorkspaceIds[n + 1 - k], name |-> WorkspaceNames[n + 1 - k]]]

\* The JSON record of the j-th object of workspace w under an endpoint.
ObjectRecord(endpoint, w, j, o) ==
  CASE endpoint = "datasets" ->
         IF o.flag = NaN
         THEN [id |-> ObjectIds[w][j], name |-> o.name]
         ELSE [id |-> ObjectIds[w][j], name |-> o.name, isRefreshable |-> o.flag]
    [] endpoint = "dataflows" -> [objectId |-> ObjectIds[w][j], name |-> o.name]
    [] OTHER -> [id |-> ObjectIds[w][j], name |-> o.name]

ObjectRecords(endpoint, w, objects) ==
  [j \in 1..Len(objects) |-> ObjectRecord(endpoint, w, j, objects[j])]

\* The j-th JSON record of a child listing.  A refresh record comes with
\* fields of its own that are named like parent-context columns; the rows of
\* a query after the first have a column the first row does not have.
ChildRecord(endpoint, j) ==
  CASE endpoint = "datasources" ->
         [datasourceId |-> RowIds[j], connectionDetails |-> "{'server': 'srv'}"]
    [] endpoint = "executeQueries" ->
         IF j = 1 THEN [k \in {"[Name]"} |-> RowIds[j]]
         ELSE [k \in {"[Name]", "[Expression]"} |-> IF k = "[Name]" THEN RowIds[j] ELSE "1+1"]
    [] endpoint = "refreshes" ->
         [id |-> RowIds[j], workspaceId |-> "upstream workspace",
          datasetName |-> "upstream dataset"]
    [] OTHER -> [id |-> RowIds[j]]

ChildRecords(endpoint, n) == [j \in 1..n |-> ChildRecord(endpoint, j)]

\* ----------------------------------------------------------- point queries
\* The outcome of a call: the exception it raised (None if it returned) and
\* the table it returned.
Raise(e) == [exc |-> e, df |-> EmptyDF]
Return(df) == [exc |-> None, df |-> df]

\* get_token / get_header: the token request of every data request.  A
\* failed token request raises before the data request is sent.
HeaderFails(a) == a.kind = "token_fault"

\* requests.get(url, headers=self.get_header()) followed by the status test
\* and the unwrapping of the {value: [...]} envelope.
ListingFetch_RaiseForStatus(a, records) ==
  IF HeaderFails(a) THEN Raise("KeyError: 'access_token'")
  ELSE IF a.kind = "transport_fault" THEN Raise("ConnectionError")
  ELSE IF a.status = 200
       THEN IF a.envelope THEN Return(FromRecords(records))
            ELSE Raise("KeyError: 'value'")
       ELSE IF a.status >= 400 THEN Raise("HTTPError") ELSE Return(EmptyDF)

ListingFetch(a, records) ==
  IF HeaderFails(a) THEN Raise("KeyError: 'access_token'")
  ELSE IF a.kind = "transport_fault" THEN Raise("ConnectionError")
  ELSE IF a.status = 200
       THEN IF a.envelope THEN Return(FromRecords(records))
            ELSE Raise("KeyError: 'value'")
       ELSE Return(EmptyDF)

\* ------------------------------------------------- connection details
\* A Python value passed to extract_connection_details: a dict with its
\* items, a str with its text, or a value of another type.
PyDict(items) == [type |-> "dict", items |-> items, text |-> <<>>]
PyStr(text) == [type |-> "str", items |-> <<>>, text |-> text]
PyOther(type) == [type |-> type, items |-> <<>>, text |-> <<>>]

\* The text of a str as the sequence of its tokens: quoted strings, and
\* punctuation and names.
Quoted(s) == [q |-> TRUE, s |-> s]
Sym(s) == [q |-> FALSE, s |-> s]

\* The tokens of the connection details the upstream sends as a string.
Lex(x) ==
  CASE x = "{'server': 'srv'}" ->
         <<Sym("{"), Quoted("server"), Sym(":"), Quoted("srv"), Sym("}")>>
    [] x = "{'url': 'u', 'path': 'p'}" ->
         <<Sym("{"), Quoted("url"), Sym(":"), Quoted("u"), Sym(","),
           Quoted("path"), Sym(":"), Quoted("p"), Sym("}")>>
    [] OTHER -> <<Sym(x)>>

\* str(d) of a dict whose values are strings or None: the items in order,
\* keys and string values quoted.
KeyOrder == <<"server", "database", "connectionString", "url", "path", "other">>

Literal(v) == IF v = None THEN Sym("None") ELSE Quoted(v)

RECURSIVE StrItems(_, _)
StrItems(d, keys) ==
  IF Len(keys) = 0 THEN <<>>
  ELSE LET rest == StrItems(d, Tail(keys))
       IN IF Head(keys) \in DOMAIN d
          THEN <<Quoted(Head(keys)), Sym(":"), Literal(d[Head(keys)])>>
               \o (IF Len(rest) = 0 THEN <<>> ELSE <<Sym(",")>> \o rest)
          ELSE rest

Str(d) == <<Sym("{")>> \o StrItems(d, KeyOrder) \o <<Sym("}")>>

\* ast.literal_eval: the value of the text if it is a Python literal, the
\* exception otherwise.  The items of a dict display are read left to right.
Parsed(v) == [ok |-> TRUE, value |-> v, error |-> None]
ParseError(e) == [ok |-> FALSE, value |-> PyOther("NoneType"), error |-> e]

IsLiteral(t) == t.q \/ t = Sym("None")

RECURSIVE EvalItems(_)
EvalItems(ts) ==
  IF Len(ts) = 0 THEN Parsed(PyDict(<<>>))
  ELSE IF /\ Len(ts) >= 3
          /\ ts[1].q
          /\ ts[2] = Sym(":")
          /\ IsLiteral(ts[3])
          /\ Len(ts) > 3 => ts[4] = Sym(",")
       THEN LET rest == EvalItems(IF Len(ts) <= 4 THEN <<>> ELSE SubSeq(ts, 5, Len(ts)))
                v == IF ts[3].q THEN ts[3].s ELSE None
            IN IF rest.ok
               THEN Parsed(PyDict(rest.value.items @@ (ts[1].s :> v)))
               ELSE rest
       ELSE ParseError("ValueError: malformed node or string")

LiteralEval(ts) ==
  IF Len(ts) = 0 THEN ParseError("SyntaxError: invalid syntax")
  ELSE IF Len(ts) >= 2 /\ ts[1] = Sym("{") /\ ts[Len(ts)] = Sym("}")
       THEN EvalItems(SubSeq(ts, 2, Len(ts) - 1))
  ELSE IF ts = <<Sym("["), Sym("]")>> THEN Parsed(PyOther("list"))
  ELSE IF ts = <<Sym("42")>> THEN Parsed(PyOther("int"))
  ELSE IF ts = <<Sym("None")>> THEN Parsed(PyOther("NoneType"))
  ELSE IF Len(ts) = 1 /\ ts[1].q THEN Parsed(PyStr(<<Sym(ts[1].s)>>))
  ELSE ParseError("SyntaxError: invalid syntax")

ConnectionKeys == {"server", "database", "connectionString", "url", "path"}

\* pd.Series([None] * 5, index=[...])
NoDetails == [k \in ConnectionKeys |-> None]

\* The outcome of extract_connection_details: the exception it raised (None
\* if it returned), the Series it returned and the lines it printed.
Extracted(series, printed) == [exc |-> None, series |-> series, printed |-> printed]

\* pd.Series({"server": details.get("server"), ...})
GetDetails(details) ==
  IF details.type = "dict"
  THEN Extracted([k \in ConnectionKeys |->
                    IF k \in DOMAIN details.items THEN details.items[k] ELSE None], <<>>)
  ELSE Extracted(NoDetails, <<"AttributeError: object has no attribute 'get'">>)

extract_connection_details_NoTry(x) ==
  IF x.type = "str"
  THEN LET ev == LiteralEval(x.text)
       IN IF ~ev.ok THEN [exc |-> ev.error, series |-> NoDetails, printed |-> <<>>]
          ELSE IF ev.value.type # "dict"
               THEN [exc |-> "AttributeError: object has no attribute 'get'",
                     series |-> NoDetails, printed |-> <<>>]
               ELSE GetDetails(ev.value)
  ELSE IF x.type = "dict" THEN GetDetails(x)
  ELSE Extracted(NoDetails, <<>>)

extract_connection_details(x) ==
  IF x.type = "str"
  THEN LET ev == LiteralEval(x.text)
       IN IF ev.ok THEN GetDetails(ev.value) ELSE Extracted(NoDetails, <<ev.error>>)
  ELSE IF x.type = "dict" THEN GetDetails(x)
  ELSE Extracted(NoDetails, <<>>)

\* get_*_sources_by_id: a listing whose rows get the five connection columns.
SourcesFetch(a, records) ==
  LET r == ListingFetch(a, records)
  IN IF r.exc # None \/ IsEmpty(r.df) THEN r
     ELSE IF "connectionDetails" \notin Columns(r.df) THEN Raise("KeyError: 'connectionDetails'")
     ELSE Return([k \in 1..Len(r.df) |->
            LET row == r.df[k]
                det == extract_connection_details(PyStr(Lex(row["connectionDetails"]))).series
            IN [c \in DOMAIN row \cup ConnectionKeys |->
                  IF c \in ConnectionKeys THEN det[c] ELSE row[c]]])

\* A column name as the sequence of its brackets and bracket-free pieces, and
\* the string a sequence of bracket-free pieces concatenates to.
Pieces(col) ==
  CASE col = "[Name]" -> <<"[", "Name", "]">>
    [] col = "[Expression]" -> <<"[", "Expression", "]">>
    [] col = "Table[Column]" -> <<"Table", "[", "Column", "]">>
    [] col = ".Name" -> <<".", "Name">>
    [] col = ".Expression" -> <<".", "Expression">>
    [] col = "Table.Column" -> <<"Table", ".", "Column">>
    [] OTHER -> <<col>>

Join(ps) ==
  CASE ps = <<"Table", "Column">> -> "TableColumn"
    [] ps = <<"Table", ".", "Column">> -> "Table.Column"
    [] ps = <<".", "Name">> -> ".Name"
    [] ps = <<".", "Expression">> -> ".Expression"
    [] Len(ps) = 1 -> ps[1]
    [] OTHER -> ""

\* col.replace('[', '').replace(']', '') on a column name the query returns.
StripBrackets_Dotted(col) ==
  Join(SelectSeq([k \in 1..Len(Pieces(col)) |->
                    IF Pieces(col)[k] = "[" THEN "." ELSE Pieces(col)[k]],
                 LAMBDA p : p # "]"))

StripBrackets(col) == Join(SelectSeq(Pieces(col), LAMBDA p : p \notin {"[", "]"}))

\* df.columns = [col.replace(...) for col in df.columns]
RenameColumns(cols) == [k \in 1..Len(cols) |-> StripBrackets(cols[k])]

\* get_dataset_tables/columns/measures/calc_dependencies_by_id: a DAX query
\* whose rows are unwrapped from results[0].tables[0].rows and renamed.
QueryFetch(a, records) ==
  IF HeaderFails(a) THEN Raise("KeyError: 'access_token'")
  ELSE IF a.kind = "transport_fault" THEN Raise("ConnectionError")
  ELSE IF a.status = 200
       THEN IF a.envelope
            THEN LET df == FromRecords(records)
                 IN Return([k \in 1..Len(df) |->
                      [c \in {StripBrackets(x) : x \in DOMAIN df[k]} |->
                         df[k][CHOOSE x \in DOMAIN df[k] : StripBrackets(x) = c]]])
            ELSE Raise("KeyError: 'results'")
       ELSE Return(EmptyDF)

\* astype(str) on a cell.
AsStr(v) ==
  CASE v = PyTrue -> "True"
    [] v = None -> "None"
    [] v = NaN -> "nan"
    [] OTHER -> v

\* get_all_workspaces: the workspace listing, the ids cast to str.
get_all_workspaces(a) ==
  LET r == ListingFetch(a, WorkspaceRecords(a.n))
  IN IF r.exc # None \/ IsEmpty(r.df) THEN r
     ELSE Return([k \in 1..Len(r.df) |-> [r.df[k] EXCEPT !["id"] = AsStr(r.df[k]["id"])]])

\* ------------------------------------------------------ the public methods
\* The public methods that make one HTTP exchange, by the shape of their body.
TableListings ==
  {"get_dataset_refresh_history_by_id", "get_dataflow_refresh_history_by_id",
   "get_workspace_users_by_id", "get_dataset_users_by_id"}

SourceListings ==
  {"get_dataset_sources_by_id", "get_dataflow_sources_by_id", "get_report_sources_by_id"}

SchemaQueries ==
  {"get_dataset_tables_by_id", "get_dataset_columns_by_id", "get_dataset_measures_by_id",
   "get_dataset_calc_dependencies_by_id"}

ObjectGetters ==
  {"get_workspace_by_id", "get_dataset_by_id", "get_report_by_id", "get_dataflow_by_id"}

GatewayObjectGetters == {"get_gateway_by_id", "get_gateway_datasource"}

GatewayListings ==
  {"get_all_gateways", "get_gateway_datasources", "get_gateway_datasource_users",
   "discover_gateways"}

GatewayMutators ==
  {"create_gateway_datasource", "update_gateway_datasource", "delete_gateway_datasource",
   "add_gateway_datasource_user", "delete_gateway_datasource_user",
   "update_gateway_datasource_credentials", "bind_dataset_to_gateway"}

ResponseMethods == {"execute_query", "update_dataset_parameters"}

RefreshMethods ==
  {"refresh_dataflow", "refresh_dataset", "refresh_tables_from_dataset",
   "refresh_objects_from_dataset"}

AuthMethods == {"get_token", "get_header"}

GatewayMethods ==
  GatewayObjectGetters \cup GatewayListings \cup GatewayMutators
  \cup {"get_gateway_datasource_status"}

PointMethods ==
  TableListings \cup SourceListings \cup SchemaQueries \cup ObjectGetters
  \cup {"get_all_workspaces"} \cup ResponseMethods \cup RefreshMethods \cup AuthMethods
  \cup GatewayMethods

MethodClass(m) == IF m \in GatewayMethods THEN "GatewayClient" ELSE "PowerBIClient"

\* The records of the body of a 200 response to method m.
QueryRecords(n) ==
  [j \in 1..n |-> [k \in {"[Name]", "Table[Column]", "Plain"} |-> RowIds[j]]]

PointRecords(m, n) ==
  CASE m \in SourceListings -> ChildRecords("datasources", n)
    [] m \in SchemaQueries -> QueryRecords(n)
    [] m = "get_all_workspaces" -> WorkspaceRecords(n)
    [] m = "get_dataset_refresh_history_by_id" -> ChildRecords("refreshes", n)
    [] OTHER -> ChildRecords("users", n)

\* pd.DataFrame([result.json()]): the body as the one row of a table.
ObjectFetch(a) ==
  IF HeaderFails(a) THEN Raise("KeyError: 'access_token'")
  ELSE IF a.kind = "transport_fault" THEN Raise("ConnectionError")
  ELSE IF a.status = 200
       THEN Return(FromRecords(<< IF a.envelope THEN [id |-> "O11", name |-> "Sales"]
                                  ELSE [k \in {} |-> None] >>))
       ELSE Return(EmptyDF)

\* pd.DataFrame(result.json().get("value", [])): a missing envelope is an
\* empty list.
LenientFetch(a, records) ==
  IF HeaderFails(a) THEN Raise("KeyError: 'access_token'")
  ELSE IF a.kind = "transport_fault" THEN Raise("ConnectionError")
  ELSE IF a.status = 200
       THEN Return(FromRecords(IF a.envelope THEN records ELSE <<>>))
       ELSE Return(EmptyDF)

\* The outcome of a method: the exception it raised, the table it returned
\* and the Python type of the value it returned.
Typed(r) == [exc |-> r.exc, df |-> r.df, type |-> IF r.exc = None THEN "DataFrame" ELSE None]

\* A method that sends its request and returns a value that is not a table.
Plain(a, type) ==
  IF HeaderFails(a) THEN [exc |-> "KeyError: 'access_token'", df |-> EmptyDF, type |-> None]
  ELSE IF a.kind = "transport_fault"
       THEN [exc |-> "ConnectionError", df |-> EmptyDF, type |-> None]
       ELSE [exc |-> None, df |-> EmptyDF, type |-> type]

PointQuery(m, a) ==
  CASE m \in TableListings -> Typed(ListingFetch(a, PointRecords(m, a.n)))
    [] m \in SourceListings -> Typed(SourcesFetch(a, PointRecords(m, a.n)))
    [] m \in SchemaQueries -> Typed(QueryFetch(a, PointRecords(m, a.n)))
    [] m = "get_all_workspaces" -> Typed(get_all_workspaces(a))
    [] m \in ObjectGetters \cup GatewayObjectGetters -> Typed(ObjectFetch(a))
    [] m \in GatewayListings -> Typed(LenientFetch(a, PointRecords(m, a.n)))
    [] m = "get_gateway_datasource_status" ->
         Plain(a, IF a.kind = "http" /\ a.status = 200 THEN "dict" ELSE "NoneType")
    [] m \in ResponseMethods \cup GatewayMutators -> Plain(a, "Response")
    [] m \in RefreshMethods -> Plain(a, "NoneType")
    [] m = "get_token" -> Plain([a EXCEPT !.kind = IF HeaderFails(a) THEN @ ELSE "http"], "str")
    [] OTHER -> Plain([a EXCEPT !.kind = IF HeaderFails(a) THEN @ ELSE "http"], "dict")

\* ------------------------------------------------------ refresh operations
\* The JSON body of a request: none, or {"objects": [...]}.
NoBody == [json |-> FALSE, objects |-> <<>>]
Body(objects) == [json |-> TRUE, objects |-> objects]

\* Arguments of the refresh operations (test data): table lists, and object
\* lists, one of them with a partition.
Tables == {"Sales", "Customers"}
MaxTables == 2

TableLists == UNION {[1..n -> Tables] : n \in 0..MaxTables}

\* [{"table": table} for table in table_list]
TableObjects(table_list) == [k \in 1..Len(table_list) |-> [table |-> table_list[k]]]

ObjectArguments ==
  {TableObjects(tl) : tl \in TableLists}
  \cup {<<[table |-> "Sales"], [table |-> "Customers", partition |-> "Customers-2025"]>>}

Arguments(m) ==
  CASE m = "refresh_tables_from_dataset" -> TableLists
    [] m = "refresh_objects_from_dataset" -> ObjectArguments
    [] OTHER -> {<<>>}

\* The body of the POST of a refresh operation: refresh_tables_from_dataset
\* and refresh_objects_from_dataset pass a body to refresh_dataset, which
\* sends no body by default; refresh_dataflow sends none.
RefreshBody(m, arg) ==
  CASE m = "refresh_tables_from_dataset" -> Body(TableObjects(arg))
    [] m = "refresh_objects_from_dataset" -> Body(arg)
    [] OTHER -> NoBody

\* The status test of refresh_dataflow (200) and of refresh_dataset (202).
RefreshSucceeded_AnySuccess(m, a) == a.status \in 200..299

RefreshSucceeded(m, a) == a.status = (IF m = "refresh_dataflow" THEN 200 ELSE 202)

\* The line a refresh operation prints once the response is there.
RefreshPrint(m, a) ==
  LET what == IF m = "refresh_dataflow" THEN "dataflow" ELSE "dataset"
  IN IF RefreshSucceeded(m, a)
     THEN [msg |-> "Start refreshing", what |-> what, id |-> "O11", e |-> None]
     ELSE [msg |-> "Failed to refresh", what |-> what, id |-> "O11", e |-> ToString(a.status)]

\* ---------------------------------------------------------- the bulk table
SingleLevelOps == {"get_all_datasets", "get_all_dataflows", "get_all_reports"}

DatasetOps ==
  {"get_all_dataset_refresh_history", "get_all_dataset_users", "get_all_dataset_sources",
   "get_all_dataset_tables", "get_all_dataset_columns", "get_all_dataset_measures",
   "get_all_dataset_calc_dependencies"}

DataflowOps == {"get_all_dataflow_refresh_history", "get_all_dataflow_sources"}

ReportOps == {"get_all_report_sources"}

TwoLevelOps == DatasetOps \cup DataflowOps \cup ReportOps

BulkOps == SingleLevelOps \cup TwoLevelOps

\* The aggregation a bulk operation takes its parents from.
ParentOp(o) ==
  IF o \in SingleLevelOps THEN o
  ELSE IF o \in DatasetOps THEN "get_all_datasets"
  ELSE IF o \in DataflowOps THEN "get_all_dataflows"
  ELSE "get_all_reports"

\* The resource the per-workspace point query asks for.
ParentEndpoint(o) ==
  CASE ParentOp(o) = "get_all_datasets" -> "datasets"
    [] ParentOp(o) = "get_all_dataflows" -> "dataflows"
    [] OTHER -> "reports"

\* The sub-resource the per-parent point query asks for.
ChildEndpoint(o) ==
  CASE o = "get_all_dataset_refresh_history" -> "refreshes"
    [] o = "get_all_dataflow_refresh_history" -> "transactions"
    [] o = "get_all_dataset_users" -> "users"
    [] o \in {"get_all_dataset_sources", "get_all_dataflow_sources",
              "get_all_report_sources"} -> "datasources"
    [] OTHER -> "executeQueries"

\* The column of the parent row that holds the parent's identifier.
IdColumn(o) == IF o \in DataflowOps THEN "objectId" ELSE "id"

\* The parent-context columns of the immediate parent.
TagId(o) ==
  IF o \in DatasetOps THEN "datasetId"
  ELSE IF o \in DataflowOps THEN "dataflowId" ELSE "reportId"

TagName(o) ==
  IF o \in DatasetOps THEN "datasetName"
  ELSE IF o \in DataflowOps THEN "dataflowName" ELSE "reportName"

\* The filter pre-pass of the operation.
FilterOf(o) ==
  CASE o = "get_all_dataset_refresh_history" -> "refreshable"
    [] o \in {"get_all_dataset_users", "get_all_dataset_sources"} -> "usage"
    [] OTHER -> "none"

\* df_datasets[df_datasets['isRefreshable'] == 'True']
RefreshableFilter_Truthy(df) ==
  IF "isRefreshable" \notin Columns(df) THEN Raise("KeyError: 'isRefreshable'")
  ELSE Return(SelectEq(df, "isRefreshable", "True")
              \o SelectEq(df, "isRefreshable", PyTrue)
              \o SelectEq(df, "isRefreshable", "true"))

RefreshableFilter(df) ==
  IF "isRefreshable" \notin Columns(df) THEN Raise("KeyError: 'isRefreshable'")
  ELSE Return(SelectEq(df, "isRefreshable", "True"))

\* df_datasets[~df_datasets['name'].str.contains("Usage Metrics")]
UsageMetricsFilter_WholeName(df) ==
  IF "name" \notin Columns(df) THEN Raise("KeyError: 'name'")
  ELSE Return(SelectNotContains(df, "name", "Usage Metrics Report"))

UsageMetricsFilter(df) ==
  IF "name" \notin Columns(df) THEN Raise("KeyError: 'name'")
  ELSE Return(SelectNotContains(df, "name", "Usage Metrics"))

ApplyFilter_Skipped(o, df) == Return(df)

ApplyFilter(o, df) ==
  CASE FilterOf(o) = "refreshable" -> RefreshableFilter(df)
    [] FilterOf(o) = "usage" -> UsageMetricsFilter(df)
    [] OTHER -> Return(df)

\* ------------------------------------------------------------ loop bodies
\* The per-workspace point query as the bulk loop calls it, with the
\* workspace id as its only argument.  PowerBIClient.get_dataset_by_id,
\* get_dataflow_by_id and get_report_by_id take two positional arguments, so
\* the call raises before any request; BulkClient's point queries are
\* inherited from its mixins.
MixinParentFetch(a, records) == ListingFetch(a, records)

ParentFetch_AnyArity(class, a, records) == MixinParentFetch(a, records)

ParentFetch(class, a, records) ==
  IF class = "PowerBIClient"
  THEN Raise("TypeError: missing 1 required positional argument")
  ELSE MixinParentFetch(a, records)

\* The per-parent point query of a two-level operation.
ChildFetch(o, a, records) ==
  CASE ChildEndpoint(o) = "datasources" -> SourcesFetch(a, records)
    [] ChildEndpoint(o) = "executeQueries" -> QueryFetch(a, records)
    [] OTHER -> ListingFetch(a, records)

\* Body of the try block of the workspace loop: tag and append a non-empty
\* result.
WorkspaceContext(df, workspace) ==
  Assign(Assign(df, "workspaceId", workspace["id"]), "workspaceName", workspace["name"])

WorkspaceBody(acc, workspace, r) ==
  IF r.exc = None /\ ~IsEmpty(r.df)
  THEN Concat(acc, WorkspaceContext(r.df, workspace))
  ELSE acc

\* The except clause of the workspace loop: one printed line.
WorkspaceDiag(d, workspace, r) ==
  IF r.exc # None
  THEN Append(d, [msg |-> "Error processing workspace", id |-> workspace["id"], e |-> r.exc])
  ELSE d

\* Body of the try block of the parent loop of a two-level operation.
ParentContext_NoName(o, df, parent) ==
  Assign(Assign(Assign(df,
    TagId(o), parent[IdColumn(o)]),
    "workspaceId", parent["workspaceId"]),
    "workspaceName", parent["workspaceName"])

ParentContext(o, df, parent) ==
  Assign(Assign(Assign(Assign(df,
    TagId(o), parent[IdColumn(o)]),
    TagName(o), parent["name"]),
    "workspaceId", parent["workspaceId"]),
    "workspaceName", parent["workspaceName"])

ParentBody_ResetOnFailure(o, acc, parent, r) ==
  IF r.exc = None /\ ~IsEmpty(r.df)
  THEN Concat(acc, ParentContext(o, r.df, parent))
  ELSE EmptyDF

ParentBody_MarksFailure(o, acc, parent, r) ==
  IF r.exc = None /\ ~IsEmpty(r.df)
  THEN Concat(acc, ParentContext(o, r.df, parent))
  ELSE IF r.exc # None
       THEN Concat(acc, ParentContext(o, <<[error |-> r.exc]>>, parent))
       ELSE acc

ParentBody(o, acc, parent, r) ==
  IF r.exc = None /\ ~IsEmpty(r.df)
  THEN Concat(acc, ParentContext(o, r.df, parent))
  ELSE acc

\* The except clause of the parent loop.
ParentDiag(o, d, parent, r) ==
  IF r.exc # None
  THEN Append(d, [msg |-> ChildEndpoint(o), id |-> parent[IdColumn(o)], e |-> r.exc])
  ELSE d

\* ------------------------------------------------------------------ state
VARIABLES
  class,          \* the class of the client object
  access_token,   \* self.access_token
  upstream,       \* the answers of the upstream state, as far as given
  frozen,         \* the upstream state does not change between calls
  op,             \* the bulk operation being executed
  pc,             \* its position
  df_workspaces,  \* the workspace table
  df_parents,     \* df_all_datasets / df_all_dataflows / df_all_reports
  i,              \* position of the running loop
  df_all,         \* the accumulator of a two-level operation
  diag,           \* lines printed by the call
  requests,       \* HTTP requests sent by the call, token requests included
  result,         \* the table the call returned
  exc,            \* the exception that escaped the call
  rtype,          \* the Python type of the value the call returned
  argument,       \* the argument of the method called last, if it is modelled
  saved           \* outcome of an earlier call, kept for comparison

vars == <<class, access_token, upstream, frozen, op, pc, df_workspaces, df_parents,
          i, df_all, diag, requests, result, exc, rtype, argument, saved>>

Classes == {"PowerBIClient", "BulkClient"}

\* The record of an earlier call: its operation, how it ended, and whether
\* another operation has been invoked since.
NotSaving == [op |-> "off", pc |-> "idle", result |-> EmptyDF, exc |-> None, between |-> FALSE]
Armed == [op |-> "armed", pc |-> "idle", result |-> EmptyDF, exc |-> None, between |-> FALSE]

\* PowerBIClient.__init__: the credentials are stored, no token yet.
InitClient ==
  /\ class \in Classes
  /\ access_token = None
  /\ op = "none"
  /\ pc = "idle"
  /\ df_workspaces = EmptyDF
  /\ df_parents = EmptyDF
  /\ i = 1
  /\ df_all = EmptyDF
  /\ diag = <<>>
  /\ requests = <<>>
  /\ result = EmptyDF
  /\ exc = None
  /\ rtype = None
  /\ argument = <<>>

\* The upstream state may change between two calls.
Init ==
  /\ InitClient
  /\ frozen = FALSE
  /\ upstream = UnknownUpstream
  /\ saved = NotSaving

\* ---------------------------------------------------------------- actions
\* A request: its URL, the workspace and object it names, and its token: the
\* token the response carries for a token request (None if it carries none),
\* the bearer token of the Authorization header for a data request.
TokenRequest == [url |-> "token", ws |-> None, obj |-> None, token |-> None, body |-> NoBody]
DataRequest(endpoint, w, o) ==
  [url |-> endpoint, ws |-> w, obj |-> o, token |-> None, body |-> NoBody]

\* The token the token endpoint issues: a fresh one for every token request
\* of a call.
IssuedToken(reqs) ==
  Tokens[(Cardinality({k \in 1..Len(reqs) : reqs[k].url = "token"}) % Len(Tokens)) + 1]

\* The requests one point query sends after the requests reqs: the token
\* request of get_header, then the data request with the token it returned,
\* unless get_header raised.  old is self.access_token before the call.
Sent_CachedToken(a, req, reqs, old) ==
  IF old # None THEN <<[req EXCEPT !.token = old]>>
  ELSE IF HeaderFails(a) THEN <<TokenRequest>>
  ELSE <<[TokenRequest EXCEPT !.token = IssuedToken(reqs)],
         [req EXCEPT !.token = IssuedToken(reqs)]>>

Sent_Retry(a, req, reqs, old) ==
  LET once(rs) == IF HeaderFails(a) THEN <<TokenRequest>>
                  ELSE <<[TokenRequest EXCEPT !.token = IssuedToken(rs)],
                         [req EXCEPT !.token = IssuedToken(rs)]>>
  IN IF Succeeds(a) THEN once(reqs) ELSE once(reqs) \o once(reqs \o once(reqs))

Sent(a, req, reqs, old) ==
  IF HeaderFails(a) THEN <<TokenRequest>>
  ELSE <<[TokenRequest EXCEPT !.token = IssuedToken(reqs)],
         [req EXCEPT !.token = IssuedToken(reqs)]>>

\* get_token: self.access_token after the token request of a point query.
TokenAfter_ClearedOnFailure(a, reqs, old) ==
  IF HeaderFails(a) THEN None ELSE IssuedToken(reqs)

TokenAfter(a, reqs, old) == IF HeaderFails(a) THEN old ELSE IssuedToken(reqs)

\* The call ends: it returns a table or an exception escapes it.
Finish(p, res, e) ==
  /\ pc' = p
  /\ result' = res
  /\ exc' = e
  /\ rtype' = IF p = "returned" THEN "DataFrame" ELSE None
  /\ saved' \in (IF saved = Armed
                 THEN {saved, [op |-> op, pc |-> p, result |-> res, exc |-> e,
                               between |-> FALSE]}
                 ELSE {saved})

\* df_all_... = pd.DataFrame(): the accumulator of a call is a new table,
\* whatever an earlier call left.
NewTable_Retained(previous) == previous

NewTable(previous) == EmptyDF

\* The caller invokes a bulk operation; every local starts fresh.
Call(o) ==
  /\ pc \in {"idle", "returned", "raised"}
  /\ op' = o
  /\ pc' = "workspaces"
  /\ df_workspaces' = EmptyDF
  /\ df_parents' = NewTable(df_parents)
  /\ df_all' = NewTable(df_all)
  /\ i' = 1
  /\ diag' = <<>>
  /\ requests' = <<>>
  /\ result' = EmptyDF
  /\ exc' = None
  /\ rtype' = None
  /\ upstream' = IF frozen THEN upstream ELSE UnknownUpstream
  /\ saved' = IF saved.op \in BulkOps /\ o # saved.op
              THEN [saved EXCEPT !.between = TRUE]
              ELSE saved
  /\ UNCHANGED <<argument, class, access_token, frozen>>

\* df_workspaces = self.get_all_workspaces(), outside any try block.
EnumerateWorkspaces ==
  /\ pc = "workspaces"
  /\ \E a \in ListingAnswers :
       /\ upstream.listing \in {Unknown, a}
       /\ upstream' = [upstream EXCEPT !.listing = a]
       /\ access_token' = TokenAfter(a, requests, access_token)
       /\ requests' = requests \o Sent(a, DataRequest("groups", None, None), requests, access_token)
       /\ LET r == get_all_workspaces(a)
          IN IF r.exc # None
             THEN /\ Finish("raised", EmptyDF, r.exc)
                  /\ UNCHANGED <<df_workspaces, i>>
             ELSE /\ df_workspaces' = r.df
                  /\ i' = 1
                  /\ pc' = "level1"
                  /\ UNCHANGED <<result, exc, rtype, saved>>
  /\ UNCHANGED <<argument, class, frozen, op, df_parents, df_all, diag>>

\* df.iterrows(): the k-th row the loop visits is the k-th row of the table.
Iterrows_Reversed(df, k) == df[Len(df) + 1 - k]

Iterrows(df, k) == df[k]

\* One iteration of "for _, workspace in df_workspaces.iterrows()".
WorkspaceLoopStep ==
  /\ pc = "level1"
  /\ i <= Len(df_workspaces)
  /\ LET workspace == Iterrows(df_workspaces, i)
         w == WsIndex(workspace["id"])
     IN IF class = "PowerBIClient"
        THEN LET r == ParentFetch(class, Unknown, <<>>)
             IN /\ df_parents' = WorkspaceBody(df_parents, workspace, r)
                /\ diag' = WorkspaceDiag(diag, workspace, r)
                /\ UNCHANGED <<upstream, access_token, requests>>
        ELSE \E a \in (IF frozen THEN {upstream.ws[w]} ELSE WorkspaceAnswers) :
               /\ upstream.ws[w] \in {UnknownWorkspace, a}
               /\ upstream' = [upstream EXCEPT !.ws[w] = a]
               /\ access_token' = TokenAfter(a.resp, requests, access_token)
               /\ requests' = requests \o
                    Sent(a.resp, DataRequest(ParentEndpoint(op), workspace["id"], None),
                         requests, access_token)
               /\ LET r == ParentFetch(class, a.resp,
                                       ObjectRecords(ParentEndpoint(op), w, a.objects))
                  IN /\ df_parents' = WorkspaceBody(df_parents, workspace, r)
                     /\ diag' = WorkspaceDiag(diag, workspace, r)
  /\ i' = i + 1
  /\ UNCHANGED <<argument, class, frozen, op, pc, df_workspaces, df_all, result, exc, rtype, saved>>

\* The workspace loop is over: a single-level operation returns its table, a
\* two-level operation goes on with the table as its parent collection.
WorkspaceLoopExit ==
  /\ pc = "level1"
  /\ i > Len(df_workspaces)
  /\ IF op \in SingleLevelOps
     THEN Finish("returned", df_parents, None)
     ELSE /\ pc' = "filter"
          /\ UNCHANGED <<result, exc, rtype, saved>>
  /\ UNCHANGED <<argument, class, access_token, upstream, frozen, op, df_workspaces, df_parents,
                 i, df_all, diag, requests>>

\* The filter pre-pass, outside any try block.
FilterParents ==
  /\ pc = "filter"
  /\ LET r == ApplyFilter(op, df_parents)
     IN IF r.exc # None
        THEN /\ Finish("raised", EmptyDF, r.exc)
             /\ UNCHANGED <<df_parents, i>>
        ELSE /\ df_parents' = r.df
             /\ i' = 1
             /\ pc' = "level2"
             /\ UNCHANGED <<result, exc, rtype, saved>>
  /\ UNCHANGED <<argument, class, access_token, upstream, frozen, op, df_workspaces, df_all,
                 diag, requests>>

\* The upstream object a parent row stands for.
ObjectOf(o, parent) ==
  LET w == WsIndex(parent["workspaceId"])
      j == CHOOSE j \in 1..Len(ObjectIds[w]) : ObjectIds[w][j] = parent[IdColumn(o)]
  IN upstream.ws[w].objects[j]

\* One iteration of the parent loop of a two-level operation.
ParentLoopStep ==
  /\ pc = "level2"
  /\ i <= Len(df_parents)
  /\ LET parent == Iterrows(df_parents, i)
         a == ObjectOf(op, parent).child
         r == ChildFetch(op, a, ChildRecords(ChildEndpoint(op), a.n))
     IN /\ access_token' = TokenAfter(a, requests, access_token)
        /\ requests' = requests \o
             Sent(a, DataRequest(ChildEndpoint(op), parent["workspaceId"], parent[IdColumn(op)]),
                  requests, access_token)
        /\ df_all' = ParentBody(op, df_all, parent, r)
        /\ diag' = ParentDiag(op, diag, parent, r)
  /\ i' = i + 1
  /\ UNCHANGED <<argument, class, upstream, frozen, op, pc, df_workspaces, df_parents, result,
                 exc, rtype, saved>>

\* return df_all_...
ReturnTable ==
  /\ pc = "level2"
  /\ i > Len(df_parents)
  /\ Finish("returned", df_all, None)
  /\ UNCHANGED <<argument, class, access_token, upstream, frozen, op, df_workspaces, df_parents,
                 i, df_all, diag, requests>>

\* The caller invokes one public method that makes one HTTP exchange; the
\* upstream answers a.
PointCall(m, a) ==
  /\ pc \in {"idle", "returned", "raised"}
  /\ m \in AuthMethods \/ MethodClass(m) = class
  /\ \E arg \in Arguments(m) :
     LET r == PointQuery(m, a)
         sent == Sent(a, [DataRequest(m, None, None) EXCEPT !.body = RefreshBody(m, arg)],
                      <<>>, access_token)
     IN /\ op' = m
        /\ argument' = arg
        /\ diag' = IF m \in RefreshMethods /\ r.exc = None
                   THEN <<RefreshPrint(m, a)>> ELSE <<>>
        /\ upstream' = [upstream EXCEPT !.listing = a]
        /\ requests' = IF m \in AuthMethods THEN <<Head(sent)>> ELSE sent
        /\ access_token' = TokenAfter(a, <<>>, access_token)
        /\ pc' = IF r.exc = None THEN "returned" ELSE "raised"
        /\ result' = r.df
        /\ exc' = r.exc
        /\ rtype' = r.type
  /\ UNCHANGED <<class, frozen, df_workspaces, df_parents, i, df_all, saved>>

Next ==
  \/ \E o \in BulkOps : Call(o)
  \/ EnumerateWorkspaces
  \/ WorkspaceLoopStep
  \/ WorkspaceLoopExit
  \/ FilterParents
  \/ ParentLoopStep
  \/ ReturnTable

Spec == Init /\ [][Next]_vars

\* The steps of a call that has been invoked.  A call runs in one thread and
\* every HTTP request returns or faults, so a call that can take a step
\* eventually takes it; nothing obliges the caller to call again.
Step ==
  \/ EnumerateWorkspaces
  \/ WorkspaceLoopStep
  \/ WorkspaceLoopExit
  \/ FilterParents
  \/ ParentLoopStep
  \/ ReturnTable

SpecLive == Init /\ [][Next]_vars /\ WF_vars(Step)

\* The same client against an upstream state that does not change: every
\* request gets the same answer whenever it is sent, and the outcome of one
\* call is kept for comparison with later calls.
RepeatLists ==
  { <<Object("Sales", "True", Ok(MaxRows))>>,
    <<Object("Sales", "True", TransportFault), Object("Sales", "True", Ok(1))>> }

RepeatAnswers ==
  {[resp |-> TransportFault, objects |-> <<>>]}
  \cup {[resp |-> Ok(Len(l)), objects |-> l] : l \in RepeatLists}

RepeatUpstreams ==
  {u \in [listing : {TransportFault} \cup {Ok(n) : n \in 0..MaxWorkspaces},
          ws : [1..MaxWorkspaces -> RepeatAnswers \cup {UnknownWorkspace}]] :
     \A w \in 1..MaxWorkspaces :
       (u.ws[w] = UnknownWorkspace) <=> (~Succeeds(u.listing) \/ w > u.listing.n)}

InitRepeat ==
  /\ InitClient
  /\ frozen = TRUE
  /\ upstream \in RepeatUpstreams
  /\ saved = Armed

SpecRepeat == InitRepeat /\ [][Next]_vars

\* The same, against an upstream state in which, between two calls, the point
\* query of a parent that gives no rows may come to give no rows in another
\* way: by a transport fault, by a non-success status or by an empty listing.
NoRows == {TransportFault, NotFound, Ok(0)}

GivesNoRows(a) == ~Succeeds(a) \/ a.n = 0

ObjectVariants(objects) ==
  {[j \in 1..Len(objects) |-> [objects[j] EXCEPT !.child = f[j]]] :
     f \in {g \in [1..Len(objects) -> NoRows \cup {objects[j].child : j \in 1..Len(objects)}] :
              \A j \in 1..Len(objects) :
                IF GivesNoRows(objects[j].child) THEN g[j] \in NoRows
                ELSE g[j] = objects[j].child}}

WorkspaceVariants(wa) ==
  IF wa = UnknownWorkspace THEN {wa}
  ELSE IF GivesNoRows(wa.resp) THEN {[resp |-> r, objects |-> <<>>] : r \in NoRows}
  ELSE {[resp |-> wa.resp, objects |-> objs] : objs \in ObjectVariants(wa.objects)}

UpstreamVariants(u) ==
  {[listing |-> u.listing, ws |-> f] :
     f \in {g \in [1..MaxWorkspaces -> UNION {WorkspaceVariants(u.ws[w]) : w \in 1..MaxWorkspaces}] :
              \A w \in 1..MaxWorkspaces : g[w] \in WorkspaceVariants(u.ws[w])}}

\* The upstream changes so, once the outcome of a call has been kept.
Perturb ==
  /\ pc \in {"idle", "returned", "raised"}
  /\ frozen
  /\ saved.op \in BulkOps
  /\ upstream' \in UpstreamVariants(upstream) \ {upstream}
  /\ UNCHANGED <<argument, class, access_token, frozen, op, pc, df_workspaces, df_parents, i, df_all,
                 diag, requests, result, exc, rtype, saved>>

NextTwin == Next \/ Perturb

SpecTwin == InitRepeat /\ [][NextTwin]_vars

\* A client whose public methods are called one at a time, each against any
\* answer of the upstream.
PointClasses == {"PowerBIClient", "GatewayClient"}

PointAnswers ==
  {TokenFault, TransportFault, NotFound, Malformed,
   Http(202, FALSE, 0), Http(204, FALSE, 0), Http(500, FALSE, 0)}
  \cup {Ok(n) : n \in 0..MaxRows}

InitPoint ==
  /\ class \in PointClasses
  /\ access_token = None
  /\ op = "none"
  /\ pc = "idle"
  /\ df_workspaces = EmptyDF
  /\ df_parents = EmptyDF
  /\ i = 1
  /\ df_all = EmptyDF
  /\ diag = <<>>
  /\ requests = <<>>
  /\ result = EmptyDF
  /\ exc = None
  /\ rtype = None
  /\ argument = <<>>
  /\ frozen = FALSE
  /\ upstream = UnknownUpstream
  /\ saved = NotSaving

NextPoint == \E m \in PointMethods, a \in PointAnswers : PointCall(m, a)

SpecPoint == InitPoint /\ [][NextPoint]_vars

\* extract_connection_details called on its own, on every kind of argument.
\* Largest number of items of a dict argument.
MaxItems == 2

DetailKeys == ConnectionKeys \cup {"other"}
DetailValues == {"srv", None}

Dicts ==
  UNION {[S -> DetailValues] : S \in {T \in SUBSET DetailKeys : Cardinality(T) <= MaxItems}}

\* Texts that are not Python literals, and literals that are not dicts.
UnparsableTexts ==
  { <<>>,
    <<Sym("not a literal")>>,
    <<Sym("{"), Quoted("server")>>,
    <<Sym("{"), Quoted("server"), Sym(":"), Sym("nan"), Sym("}")>>,
    <<Sym("{"), Quoted("server"), Sym(":"), Quoted("srv"), Quoted("url"), Sym(":"),
      Quoted("u"), Sym("}")>> }

NonDictTexts ==
  {<<Sym("["), Sym("]")>>, <<Sym("42")>>, <<Sym("None")>>, <<Quoted("srv")>>}

OtherValues == {PyOther("NoneType"), PyOther("float"), PyOther("int"), PyOther("list")}

ExtractArguments ==
  {PyDict(d) : d \in Dicts}
  \cup {PyStr(Str(d)) : d \in Dicts}
  \cup {PyStr(t) : t \in UnparsableTexts \cup NonDictTexts}
  \cup OtherValues

InitExtract ==
  /\ class = "PowerBIClient"
  /\ access_token = None
  /\ op = "none"
  /\ pc = "idle"
  /\ df_workspaces = EmptyDF
  /\ df_parents = EmptyDF
  /\ i = 1
  /\ df_all = EmptyDF
  /\ diag = <<>>
  /\ requests = <<>>
  /\ result = EmptyDF
  /\ exc = None
  /\ rtype = None
  /\ argument \in ExtractArguments
  /\ frozen = FALSE
  /\ upstream = UnknownUpstream
  /\ saved = NotSaving

\* The caller applies extract_connection_details to the argument; the
\* Series it returns is kept as the one row of the result.
ExtractCall ==
  /\ pc = "idle"
  /\ LET r == extract_connection_details(argument)
     IN /\ op' = "extract_connection_details"
        /\ pc' = IF r.exc = None THEN "returned" ELSE "raised"
        /\ result' = IF r.exc = None THEN <<r.series>> ELSE EmptyDF
        /\ exc' = r.exc
        /\ rtype' = IF r.exc = None THEN "Series" ELSE None
        /\ diag' = [k \in 1..Len(r.printed) |->
                      [msg |-> "Error parsing connectionDetails", id |-> None,
                       e |-> r.printed[k]]]
  /\ UNCHANGED <<argument, class, access_token, upstream, frozen, df_workspaces, df_parents,
                 i, df_all, requests, saved>>

NextExtract == ExtractCall

SpecExtract == InitExtract /\ [][NextExtract]_vars

\* ------------------------------------------- the upstream state, as a whole
\* What the claims are stated against: the objects the upstream holds and the
\* answers it gave, read from the upstream state without the tables of the
\* call.

\* The call is over: it returned or an exception escaped it.
Finished == pc \in {"returned", "raised"}

\* The workspaces the listing gave, as indexes into WorkspaceIds, in order.
Listed ==
  IF Succeeds(upstream.listing)
  THEN [k \in 1..upstream.listing.n |-> upstream.listing.n + 1 - k]
  ELSE <<>>

\* The per-workspace point query of workspace w raised / returned rows.
WorkspaceFaults(w) == class = "PowerBIClient" \/ Faults(upstream.ws[w].resp)
WorkspaceSucceeds(w) == class = "BulkClient" /\ Succeeds(upstream.ws[w].resp)

\* The parents (workspace index, position) the workspaces gave, in order.
RECURSIVE ParentsOf(_)
ParentsOf(ws) ==
  IF Len(ws) = 0 THEN <<>>
  ELSE LET w == Head(ws)
       IN (IF WorkspaceSucceeds(w)
           THEN [j \in 1..Len(upstream.ws[w].objects) |-> <<w, j>>]
           ELSE <<>>) \o ParentsOf(Tail(ws))

Obj(p) == upstream.ws[p[1]].objects[p[2]]

\* The names that contain the literal "Usage Metrics".
UsageMetricsNames == {"Usage Metrics Report", "Team Usage Metrics", "Usage Metrics"}

Passes(o, p) ==
  CASE FilterOf(o) = "refreshable" -> Obj(p).flag = "True"
    [] FilterOf(o) = "usage" -> Obj(p).name \notin UsageMetricsNames
    [] OTHER -> TRUE

RECURSIVE Passing(_, _)
Passing(o, ps) ==
  IF Len(ps) = 0 THEN <<>>
  ELSE (IF Passes(o, Head(ps)) THEN <<Head(ps)>> ELSE <<>>) \o Passing(o, Tail(ps))

\* The parents of the running operation: workspaces for a single-level
\* operation, the filtered objects for a two-level one.
FanOutParents == Passing(op, ParentsOf(Listed))

\* The column of a child row that identifies it.
ChildIdColumn(o) ==
  CASE ChildEndpoint(o) = "datasources" -> "datasourceId"
    [] ChildEndpoint(o) = "executeQueries" -> "Name"
    [] OTHER -> "id"

Cell(row, col) == IF col \in DOMAIN row THEN row[col] ELSE NaN

\* What a row of the result says about where it comes from.
RowKey(row) ==
  IF op \in SingleLevelOps
  THEN [ws |-> Cell(row, "workspaceId"), wsName |-> Cell(row, "workspaceName"),
        parent |-> Cell(row, "workspaceId"), parentName |-> Cell(row, "workspaceName"),
        child |-> Cell(row, IF ParentEndpoint(op) = "dataflows" THEN "objectId" ELSE "id")]
  ELSE [ws |-> Cell(row, "workspaceId"), wsName |-> Cell(row, "workspaceName"),
        parent |-> Cell(row, TagId(op)), parentName |-> Cell(row, TagName(op)),
        child |-> Cell(row, ChildIdColumn(op))]

ResultKeys == [k \in 1..Len(result) |-> RowKey(result[k])]

\* The rows parent p of a two-level operation gives, as keys.
ChildKeys(p) ==
  IF Succeeds(Obj(p).child)
  THEN [r \in 1..Obj(p).child.n |->
          [ws |-> WorkspaceIds[p[1]], wsName |-> WorkspaceNames[p[1]],
           parent |-> ObjectIds[p[1]][p[2]], parentName |-> Obj(p).name,
           child |-> RowIds[r]]]
  ELSE <<>>

\* The rows workspace w of a single-level operation gives, as keys.
ObjectKeys(w) ==
  IF WorkspaceSucceeds(w)
  THEN [j \in 1..Len(upstream.ws[w].objects) |->
          [ws |-> WorkspaceIds[w], wsName |-> WorkspaceNames[w],
           parent |-> WorkspaceIds[w], parentName |-> WorkspaceNames[w],
           child |-> ObjectIds[w][j]]]
  ELSE <<>>

RECURSIVE ConcatChildKeys(_)
ConcatChildKeys(ps) ==
  IF Len(ps) = 0 THEN <<>> ELSE ChildKeys(Head(ps)) \o ConcatChildKeys(Tail(ps))

RECURSIVE ConcatObjectKeys(_)
ConcatObjectKeys(ws) ==
  IF Len(ws) = 0 THEN <<>> ELSE ObjectKeys(Head(ws)) \o ConcatObjectKeys(Tail(ws))

\* The concatenation, in parent order, of the rows of the parents that gave
\* rows.
ExpectedKeys ==
  IF op \in SingleLevelOps THEN ConcatObjectKeys(Listed)
  ELSE ConcatChildKeys(FanOutParents)

\* The identifiers of the parents whose point query raised, in order.
RECURSIVE FaultyWorkspaces(_)
FaultyWorkspaces(ws) ==
  IF Len(ws) = 0 THEN <<>>
  ELSE (IF WorkspaceFaults(Head(ws)) THEN <<WorkspaceIds[Head(ws)]>> ELSE <<>>)
       \o FaultyWorkspaces(Tail(ws))

RECURSIVE FaultyParents(_)
FaultyParents(ps) ==
  IF Len(ps) = 0 THEN <<>>
  ELSE (IF Faults(Obj(Head(ps)).child) THEN <<ObjectIds[Head(ps)[1]][Head(ps)[2]]>> ELSE <<>>)
       \o FaultyParents(Tail(ps))

ExpectedFaults ==
  FaultyWorkspaces(Listed)
  \o (IF op \in TwoLevelOps THEN FaultyParents(FanOutParents) ELSE <<>>)

\* Every point query of the operation succeeded.
AllSucceed ==
  /\ Succeeds(upstream.listing)
  /\ \A k \in 1..Len(Listed) : WorkspaceSucceeds(Listed[k])
  /\ op \in TwoLevelOps =>
       \A k \in 1..Len(FanOutParents) : Succeeds(Obj(FanOutParents[k]).child)

RECURSIVE SumRows(_)
SumRows(keys) == IF Len(keys) = 0 THEN 0 ELSE Len(Head(keys)) + SumRows(Tail(keys))

\* The sum of the k_i: the rows the point queries of the parents returned.
ExpectedCount ==
  IF op \in SingleLevelOps
  THEN SumRows([k \in 1..Len(Listed) |-> ObjectKeys(Listed[k])])
  ELSE SumRows([k \in 1..Len(FanOutParents) |-> ChildKeys(FanOutParents[k])])

\* The parent identifiers the printed diagnostics name, in order.
DiagIds == [k \in 1..Len(diag) |-> diag[k].id]

\* The answer of the point query of the parent the running loop is at, once
\* the step has been taken (the step reveals it).
StepAnswer ==
  IF pc = "level1"
  THEN upstream'.ws[WsIndex(df_workspaces[i]["id"])].resp
  ELSE LET w == WsIndex(df_parents[i]["workspaceId"])
           j == CHOOSE j \in 1..Len(ObjectIds[w]) : ObjectIds[w][j] = df_parents[i][IdColumn(op)]
       IN upstream'.ws[w].objects[j].child

\* The parent of the step failed or returned zero rows.
StepFailsOrEmpty ==
  \/ (pc = "level1" /\ class = "PowerBIClient")
  \/ ~Succeeds(StepAnswer)
  \/ StepAnswer.n = 0

\* ------------------------------------------------------------------ claims

\* C1: if every per-parent point query of a bulk operation succeeds, with k_i
\* rows for parent i, the call returns a table of exactly the sum of the k_i
\* rows, and every row carries the parent-context identifiers of the parent
\* that produced it.
C1_SumOfRows ==
  (Finished /\ AllSucceed) =>
    /\ pc = "returned"
    /\ Len(result) = ExpectedCount
    /\ ResultKeys = ExpectedKeys

C3_FaultIsolation ==
  (Finished /\ Succeeds(upstream.listing)) =>
    /\ pc = "returned"
    /\ ResultKeys = ExpectedKeys
    /\ DiagIds = ExpectedFaults

\* C4: a bulk operation never raises because of the answers of its
\* per-parent calls: an exception escapes only if the workspace enumeration
\* itself faulted.
C4_NeverRaises == pc = "raised" => Faults(upstream.listing)

\* C5: with zero workspaces every bulk operation returns an empty table and
\* nothing faults.
C5_NoWorkspaces ==
  (Finished /\ upstream.listing = Ok(0)) =>
    /\ pc = "returned"
    /\ IsEmpty(result)
    /\ diag = <<>>

\* The upstream object a parent key <<workspace id, object id>> names.
KeyObject(wid, oid) ==
  LET w == WsIndex(wid)
      j == CHOOSE j \in 1..Len(ObjectIds[w]) : ObjectIds[w][j] = oid
  IN upstream.ws[w].objects[j]

\* The parents the data requests of the call were sent for, in order.
RequestedParents ==
  LET idx == {k \in 1..Len(requests) : requests[k].obj # None}
      nth(m) == CHOOSE k \in idx : Cardinality({x \in idx : x < k}) = m - 1
  IN [m \in 1..Cardinality(idx) |-> <<requests[nth(m)].ws, requests[nth(m)].obj>>]

\* The parents of the rows of the parent table, in order.
TableParents(df) ==
  [k \in 1..Len(df) |-> <<Cell(df[k], "workspaceId"), Cell(df[k], IdColumn(op))>>]

ParentIds(ps) == [k \in 1..Len(ps) |-> <<WorkspaceIds[ps[k][1]], ObjectIds[ps[k][1]][ps[k][2]]>>]

UsageOps == {"get_all_dataset_users", "get_all_dataset_sources"}

\* C6: in the dataset-users and dataset-sources aggregations no dataset
\* whose name contains "Usage Metrics" is a parent: none is queried and none
\* is the parent of a row; with W1 holding D1 "Sales" and D2 "Usage Metrics
\* Report", the call returns exactly D1's rows, tagged with D1 and W1.
C6_NoUsageMetricsParent ==
  op \in UsageOps =>
    /\ \A k \in 1..Len(RequestedParents) :
         KeyObject(RequestedParents[k][1], RequestedParents[k][2]).name \notin UsageMetricsNames
    /\ pc = "returned" =>
         /\ \A k \in 1..Len(result) :
              KeyObject(ResultKeys[k].ws, ResultKeys[k].parent).name \notin UsageMetricsNames
         /\ ( /\ upstream.listing = Ok(1)
              /\ upstream.ws[1].objects =
                   <<Object("Sales", "True", Ok(1)), Object("Usage Metrics Report", "True", Ok(1))>> ) =>
              ResultKeys = << [ws |-> "W1", wsName |-> "Finance", parent |-> "O11",
                               parentName |-> "Sales", child |-> "r1"] >>

\* C6 witness: the call of the scenario has returned its one row.
C6_Witness ==
  /\ op = "get_all_dataset_users"
  /\ pc = "returned"
  /\ upstream.listing = Ok(1)
  /\ Len(upstream.ws[1].objects) = 2
  /\ upstream.ws[1].objects[2].name = "Usage Metrics Report"
  /\ Len(result) = 1

\* C7: in the dataset refresh-history aggregation the parents are exactly the
\* datasets whose refreshable flag is the string "True", in order: no other
\* dataset is queried or is the parent of a row.
C7_RefreshableOnly ==
  op = "get_all_dataset_refresh_history" =>
    /\ \A k \in 1..Len(RequestedParents) :
         KeyObject(RequestedParents[k][1], RequestedParents[k][2]).flag = "True"
    /\ pc \in {"level2", "returned"} =>
         /\ TableParents(df_parents) = ParentIds(FanOutParents)
         /\ \A k \in 1..Len(FanOutParents) : Obj(FanOutParents[k]).flag = "True"
    /\ pc = "returned" =>
         \A k \in 1..Len(result) :
           KeyObject(ResultKeys[k].ws, ResultKeys[k].parent).flag = "True"

\* C7 witness: a call returned rows over a dataset collection that holds a
\* dataset whose flag is not "True".
C7_Witness ==
  /\ op = "get_all_dataset_refresh_history"
  /\ pc = "returned"
  /\ Len(result) > 0
  /\ \E k \in 1..Len(ParentsOf(Listed)) :
       Obj(ParentsOf(Listed)[k]).flag \in {"False", "true", PyTrue, NaN}

Null(v) == v \in {NaN, None}

\* C8: every row of a returned table has non-null workspaceId and
\* workspaceName, and every row of a two-level aggregation has a non-null
\* id and name of its immediate parent.
C8_ParentContext ==
  pc = "returned" =>
    \A k \in 1..Len(result) :
      /\ ~Null(Cell(result[k], "workspaceId"))
      /\ ~Null(Cell(result[k], "workspaceName"))
      /\ op \in TwoLevelOps =>
           /\ ~Null(Cell(result[k], TagId(op)))
           /\ ~Null(Cell(result[k], TagName(op)))

\* C8 witness: a two-level aggregation over two workspaces returned rows of
\* both.
C8_Witness ==
  /\ pc = "returned"
  /\ op \in TwoLevelOps
  /\ \E a, b \in 1..Len(result) :
       Cell(result[a], "workspaceId") # Cell(result[b], "workspaceId")

\* Position of the parent of a result row in the parent collection, and of
\* the row among the rows its parent returned.
ParentPos(key) ==
  IF op \in SingleLevelOps
  THEN CHOOSE k \in 1..Len(Listed) : WorkspaceIds[Listed[k]] = key.ws
  ELSE CHOOSE k \in 1..Len(FanOutParents) :
         ParentIds(FanOutParents)[k] = <<key.ws, key.parent>>

ChildPos(key) ==
  IF op \in SingleLevelOps
  THEN CHOOSE j \in 1..Len(ObjectIds[WsIndex(key.ws)]) : ObjectIds[WsIndex(key.ws)][j] = key.child
  ELSE CHOOSE r \in 1..Len(RowIds) : RowIds[r] = key.child

\* C9: the rows of a returned table are in parent enumeration order, and
\* within a parent in the order its point query returned them.
C9_RowOrder ==
  pc = "returned" =>
    \A a, b \in 1..Len(result) :
      a < b =>
        \/ ParentPos(ResultKeys[a]) < ParentPos(ResultKeys[b])
        \/ /\ ParentPos(ResultKeys[a]) = ParentPos(ResultKeys[b])
           /\ ChildPos(ResultKeys[a]) < ChildPos(ResultKeys[b])

\* C9 witness: a returned table holds several rows of one parent followed by
\* rows of a later parent.
C9_Witness ==
  /\ pc = "returned"
  /\ \E a, b, c \in 1..Len(result) :
       /\ a < b /\ b < c
       /\ ParentPos(ResultKeys[a]) = ParentPos(ResultKeys[b])
       /\ ParentPos(ResultKeys[b]) < ParentPos(ResultKeys[c])

\* C10: against an unchanged upstream state, a call of a bulk operation
\* ends as an earlier call of the same operation ended, with an identical
\* table, whatever was called in between.
C10_Idempotent ==
  (Finished /\ saved.op = op) =>
    /\ pc = saved.pc
    /\ result = saved.result
    /\ exc = saved.exc

\* C10 witness: an operation returned rows, another operation was called, and
\* the first operation has returned again.
C10_Witness ==
  /\ pc = "returned"
  /\ saved.op = op
  /\ saved.between
  /\ Len(saved.result) > 0
  /\ access_token # None

\* ------------------------------------------------- claims on point queries
\* The answer the upstream gave to the method called last.
Answer == upstream.listing

\* The point queries that return a table, and those among them that unwrap
\* the envelope of the body without a default.
TableGetters ==
  TableListings \cup SourceListings \cup SchemaQueries \cup ObjectGetters
  \cup {"get_all_workspaces"} \cup GatewayObjectGetters \cup GatewayListings

StrictGetters ==
  TableListings \cup SourceListings \cup SchemaQueries \cup {"get_all_workspaces"}

NonSuccess(a) == a.kind = "http" /\ a.status # 200

ListingFetchers == StrictGetters \cup GatewayListings

\* C12: a listing fetcher that gets a 200 response without the expected
\* envelope raises, the gateway listing fetchers included.
C12_MalformedRaises ==
  (Finished /\ op \in ListingFetchers /\ Answer = Malformed) =>
    (pc = "raised" /\ exc # None)

\* C13: the only fault that escapes a bulk operation is the fault of the
\* workspace enumeration, which reaches the caller unchanged; a fault raised
\* inside a per-parent call never escapes.
C13_OnlyEnumerationEscapes ==
  op \in BulkOps =>
    /\ pc = "raised" =>
         /\ Faults(upstream.listing)
         /\ exc = get_all_workspaces(upstream.listing).exc
    /\ (Finished /\ Faults(upstream.listing)) => pc = "raised"

\* A schema query has returned the rows of a 200 response.
SchemaRowsReturned ==
  /\ op \in SchemaQueries
  /\ pc = "returned"
  /\ Succeeds(Answer)
  /\ Answer.n > 0

\* C14 as stated: the schema queries rename Table[Column] to Table.Column,
\* leave names without brackets alone and keep the number of columns.
C14_Original ==
  SchemaRowsReturned =>
    /\ "Table.Column" \in Columns(result)
    /\ "Plain" \in Columns(result)
    /\ Cardinality(Columns(result)) = 3

\* C14, amended: the schema queries delete the brackets of every column name
\* and put nothing in their place: Table[Column] becomes TableColumn and
\* [Name] becomes Name; names without brackets are unchanged and the number
\* of columns is the number the query returned.
C14_BracketsDeleted ==
  /\ SchemaRowsReturned =>
       /\ Columns(result) = {"Name", "TableColumn", "Plain"}
       /\ Len(result) = Answer.n
       /\ \A k \in 1..Len(result) :
            /\ DOMAIN result[k] = {"Name", "TableColumn", "Plain"}
            /\ result[k]["TableColumn"] = RowIds[k]
  /\ RenameColumns(<<"[Name]", "Table[Column]", "Plain", "Name">>)
       = <<"Name", "TableColumn", "Plain", "Name">>

\* C14 witness: a schema query has returned rows under the renamed columns.
C14_Witness ==
  /\ SchemaRowsReturned
  /\ op = "get_dataset_calc_dependencies_by_id"
  /\ Len(result) = MaxRows
  /\ "TableColumn" \in Columns(result)

\* ------------------------------------------------ claims on the requests
IsToken(r) == r.url = "token"

\* C15: every data request is preceded by a token request of its own, sent
\* after the previous data request, and carries the token that request
\* returned; a token request that returned a token is followed by the one
\* data request that uses it, so there are as many token requests as point
\* queries attempted (data requests sent, plus those given up because the
\* token request failed).
C15_TokenPerRequest ==
  /\ \A k \in 1..Len(requests) :
       IF IsToken(requests[k])
       THEN requests[k].token # None =>
              (k < Len(requests) /\ ~IsToken(requests[k + 1]))
       ELSE /\ k > 1
            /\ IsToken(requests[k - 1])
            /\ requests[k - 1].token # None
            /\ requests[k].token = requests[k - 1].token
  /\ Cardinality({k \in 1..Len(requests) : IsToken(requests[k])})
       = Cardinality({k \in 1..Len(requests) : ~IsToken(requests[k])})
         + Cardinality({k \in 1..Len(requests) :
                          IsToken(requests[k]) /\ requests[k].token = None})
  /\ Len(requests) > 0 =>
       access_token = (IF \E k \in 1..Len(requests) : requests[k].token # None
                       THEN requests[CHOOSE k \in 1..Len(requests) :
                                       /\ requests[k].token # None
                                       /\ \A j \in (k + 1)..Len(requests) :
                                            requests[j].token = None].token
                       ELSE access_token)

\* C15 witness: a bulk call has returned after three data requests or more
\* and one token request that failed.
C15_Witness ==
  /\ pc = "returned"
  /\ op \in TwoLevelOps
  /\ Cardinality({k \in 1..Len(requests) : ~IsToken(requests[k])}) >= 3
  /\ \E k \in 1..Len(requests) : IsToken(requests[k]) /\ requests[k].token = None

\* C16: every public method other than the refresh operations returns a
\* table on every path on which it returns.
C16_ReturnsTable ==
  (pc = "returned" /\ op \in PointMethods \ RefreshMethods) => rtype = "DataFrame"

\* The parents the running loop has dealt with: the workspaces at level 1,
\* the filtered objects at level 2.
DoneWorkspaces ==
  IF pc = "level1" THEN SubSeq(Listed, 1, i - 1)
  ELSE IF pc \in {"filter", "level2", "returned"} THEN Listed ELSE <<>>

DoneParents ==
  IF pc = "level2" THEN SubSeq(FanOutParents, 1, i - 1)
  ELSE IF pc = "returned" /\ op \in TwoLevelOps THEN FanOutParents ELSE <<>>

\* The workspaces and the parents a data request was sent for: those whose
\* token request did not fail.
RECURSIVE SentWorkspaces(_)
SentWorkspaces(ws) ==
  IF Len(ws) = 0 THEN <<>>
  ELSE (IF class = "BulkClient" /\ upstream.ws[Head(ws)].resp.kind # "token_fault"
        THEN <<WorkspaceIds[Head(ws)]>> ELSE <<>>) \o SentWorkspaces(Tail(ws))

RECURSIVE SentParents(_)
SentParents(ps) ==
  IF Len(ps) = 0 THEN <<>>
  ELSE (IF Obj(Head(ps)).child.kind # "token_fault"
        THEN ParentIds(<<Head(ps)>>) ELSE <<>>) \o SentParents(Tail(ps))

RequestedWorkspaces ==
  LET idx == {k \in 1..Len(requests) :
                ~IsToken(requests[k]) /\ requests[k].ws # None /\ requests[k].obj = None}
      nth(m) == CHOOSE k \in idx : Cardinality({x \in idx : x < k}) = m - 1
  IN [m \in 1..Cardinality(idx) |-> requests[nth(m)].ws]

\* C17: the requests of a bulk call are sent one parent at a time, in parent
\* enumeration order: at every point of the call the requests sent so far
\* are those of the parents before the current one, each of which has been
\* dealt with (its rows appended or its failure printed), and nothing has
\* been sent for a later parent.
C17_Sequential ==
  (op \in BulkOps /\ pc \in {"level1", "filter", "level2", "returned"}) =>
    /\ RequestedWorkspaces = SentWorkspaces(DoneWorkspaces)
    /\ RequestedParents = SentParents(DoneParents)
    /\ Cardinality({k \in 1..Len(requests) : IsToken(requests[k])})
         = 1 + (IF class = "BulkClient" THEN Len(DoneWorkspaces) ELSE 0) + Len(DoneParents)
    /\ pc = "level1" =>
         /\ i - 1 <= Len(Listed)
         /\ DiagIds = FaultyWorkspaces(DoneWorkspaces)
    /\ pc = "level2" =>
         /\ [k \in 1..Len(df_all) |-> RowKey(df_all[k])] = ConcatChildKeys(DoneParents)
         /\ DiagIds = FaultyWorkspaces(Listed) \o FaultyParents(DoneParents)

\* C17 witness: the loop over three parents or more is between two of them,
\* after a parent that gave rows and a parent that failed.
C17_Witness ==
  /\ pc = "level2"
  /\ Len(FanOutParents) >= 3
  /\ i = 3
  /\ Len(df_all) > 0
  /\ Len(DiagIds) > 0

\* ---------------------------------------------------- claims on the table
\* The table the point query of the running operation returns for n records,
\* before the parent context is injected.
ChildTable(n) == ChildFetch(op, Ok(n), ChildRecords(ChildEndpoint(op), n)).df

\* The parent-context columns a child record of the upstream already has.
Clashing == DOMAIN ChildRecord(ChildEndpoint(op), 1)
            \cap {"workspaceId", "workspaceName", TagId(op), TagName(op)}

\* C18: the injected parent context overwrites: where the child records come
\* with columns named like parent-context columns, the rows of the result
\* have the values of the parent, not those of the upstream; and injecting
\* the context of a parent into a table that has it already changes nothing.
C18_InjectionOverwrites ==
  (op \in TwoLevelOps /\ pc \in {"level2", "returned"}) =>
    /\ pc = "returned" =>
         /\ ResultKeys = ExpectedKeys
         /\ \A k \in 1..Len(result) :
              /\ result[k]["workspaceId"] = WorkspaceIds[WsIndex(result[k]["workspaceId"])]
              /\ result[k][TagName(op)]
                   = KeyObject(result[k]["workspaceId"], result[k][TagId(op)]).name
    /\ \A k \in 1..Len(df_parents) :
         LET once == ParentContext(op, ChildTable(MaxRows), df_parents[k])
         IN /\ ParentContext(op, once, df_parents[k]) = once
            /\ \A r \in 1..Len(once) :
                 /\ once[r]["workspaceId"] = df_parents[k]["workspaceId"]
                 /\ once[r]["workspaceName"] = df_parents[k]["workspaceName"]
                 /\ once[r][TagId(op)] = df_parents[k][IdColumn(op)]
                 /\ once[r][TagName(op)] = df_parents[k]["name"]

\* C18 witness: the refresh-history aggregation has returned rows whose
\* upstream records have a workspaceId and a datasetName of their own.
C18_Witness ==
  /\ op = "get_all_dataset_refresh_history"
  /\ pc = "returned"
  /\ Len(result) > 0
  /\ Clashing = {"workspaceId", "datasetName"}
  /\ \A k \in 1..Len(result) : result[k]["workspaceId"] # "upstream workspace"

\* The parents of a two-level operation that returned r rows or more.
ParentsWithRow(r) ==
  {k \in 1..Len(FanOutParents) :
     Succeeds(Obj(FanOutParents[k]).child) /\ Obj(FanOutParents[k]).child.n >= r}

\* C19: no row is dropped or merged: the table has as many rows as the
\* parents returned, and a child identifier that several parents returned
\* is in the table once for each of them.
C19_NoDeduplication ==
  pc = "returned" =>
    /\ Len(result) = ExpectedCount
    /\ op \in TwoLevelOps =>
         \A r \in 1..MaxRows :
           Cardinality({k \in 1..Len(result) : ResultKeys[k].child = RowIds[r]})
             = Cardinality(ParentsWithRow(r))

\* C19 witness: a returned table has two rows with the same child identifier
\* from two parents.
C19_Witness ==
  /\ pc = "returned"
  /\ op = "get_all_dataflow_sources"
  /\ \E a, b \in 1..Len(result) :
       /\ a # b
       /\ ResultKeys[a].child = ResultKeys[b].child
       /\ ResultKeys[a].parent # ResultKeys[b].parent

\* The columns of the child result of a parent, as the upstream and the
\* point query define them, with the injected parent-context columns.
ChildShape(p) ==
  LET n == Obj(p).child.n
  IN (CASE ChildEndpoint(op) = "datasources" ->
             {"datasourceId", "connectionDetails", "server", "database",
              "connectionString", "url", "path"}
        [] ChildEndpoint(op) = "executeQueries" ->
             IF n >= 2 THEN {"Name", "Expression"} ELSE {"Name"}
        [] ChildEndpoint(op) = "refreshes" -> {"id", "workspaceId", "datasetName"}
        [] OTHER -> {"id"})
     \cup {"workspaceId", "workspaceName", TagId(op), TagName(op)}

ObjectShape(w) ==
  (CASE ParentEndpoint(op) = "dataflows" -> {"objectId", "name"}
     [] ParentEndpoint(op) = "datasets" ->
          {"id", "name"}
          \cup (IF \E j \in 1..Len(upstream.ws[w].objects) : upstream.ws[w].objects[j].flag # NaN
                THEN {"isRefreshable"} ELSE {})
     [] OTHER -> {"id", "name"})
  \cup {"workspaceId", "workspaceName"}

\* The shape of the k-th parent of the parent collection, and the parents
\* that contributed rows.
ShapeOf(k) ==
  IF op \in SingleLevelOps THEN ObjectShape(Listed[k]) ELSE ChildShape(FanOutParents[k])

Contributors ==
  IF op \in SingleLevelOps
  THEN {k \in 1..Len(Listed) : Len(ObjectKeys(Listed[k])) > 0}
  ELSE {k \in 1..Len(FanOutParents) : Len(ChildKeys(FanOutParents[k])) > 0}

\* C20: the columns of the returned table are the union of the columns of
\* the child results that contributed rows, parent context included; every
\* row has every column, with a null where its parent's result has no such
\* column; and the table has no rows when no parent contributed.
C20_ColumnUnion ==
  pc = "returned" =>
    /\ Columns(result) = UNION {ShapeOf(k) : k \in Contributors}
    /\ \A k \in 1..Len(result) :
         /\ DOMAIN result[k] = Columns(result)
         /\ \A c \in Columns(result) \ ShapeOf(ParentPos(ResultKeys[k])) :
              result[k][c] = NaN
    /\ Contributors = {} => Len(result) = 0

\* C20 witness: the measures aggregation has returned the rows of a dataset
\* whose result has a column and of a dataset whose result does not have it.
C20_Witness ==
  /\ pc = "returned"
  /\ op = "get_all_dataset_measures"
  /\ "Expression" \in Columns(result)
  /\ \E a, b \in 1..Len(result) :
       /\ result[a]["Expression"] = NaN
       /\ "Expression" \notin ShapeOf(ParentPos(ResultKeys[a]))
       /\ result[b]["Expression"] # NaN

\* ------------------------------------------------- claims on the fan-out
UnfilteredDatasetOps ==
  {"get_all_dataset_tables", "get_all_dataset_columns", "get_all_dataset_measures",
   "get_all_dataset_calc_dependencies"}

\* The point queries a call has made: one token request each.
PointQueriesMade == Cardinality({k \in 1..Len(requests) : IsToken(requests[k])})

\* The datasets, dataflows or reports of the workspaces whose point query
\* succeeded, before any filter.
AllParents == ParentsOf(Listed)

\* C21: the filter runs before the fan-out.  No request for a parent is sent
\* before the filter pre-pass is over; the dataset-users and dataset-sources
\* aggregations never send a request for a dataset whose name contains "Usage
\* Metrics", the dataset refresh-history aggregation never sends one for a
\* dataset whose flag is not "True", and each queries exactly the datasets
\* that pass; the tables, columns, measures and calc-dependencies
\* aggregations query every dataset.
C21_FilterBeforeFanOut ==
  op \in DatasetOps =>
    /\ pc \in {"workspaces", "level1", "filter"} => RequestedParents = <<>>
    /\ op \in UsageOps =>
         \A k \in 1..Len(RequestedParents) :
           ~StrContains(KeyObject(RequestedParents[k][1], RequestedParents[k][2]).name,
                        "Usage Metrics")
    /\ op = "get_all_dataset_refresh_history" =>
         \A k \in 1..Len(RequestedParents) :
           KeyObject(RequestedParents[k][1], RequestedParents[k][2]).flag = "True"
    /\ pc = "returned" =>
         /\ RequestedParents = SentParents(FanOutParents)
         /\ op \in UnfilteredDatasetOps =>
              /\ RequestedParents = SentParents(AllParents)
              /\ PointQueriesMade
                   = 1 + (IF class = "BulkClient" THEN Len(Listed) ELSE 0) + Len(AllParents)

\* C21 witness: the dataset-sources aggregation has returned after querying
\* a dataset, over a collection that holds a "Usage Metrics" dataset too.
C21_Witness ==
  /\ op = "get_all_dataset_sources"
  /\ pc = "returned"
  /\ Len(RequestedParents) > 0
  /\ \E k \in 1..Len(AllParents) : Obj(AllParents[k]).name \in UsageMetricsNames

\* The point queries the parent loop of a two-level operation has made.
ParentQueriesMade ==
  PointQueriesMade - 1 - (IF class = "BulkClient" THEN Len(Listed) ELSE 0)

\* The lines the except clause of the parent loop printed for a parent.
ParentDiagLines(id) ==
  Cardinality({k \in 1..Len(diag) : diag[k].id = id /\ diag[k].msg = ChildEndpoint(op)})

NoRepeat(s) == \A a, b \in 1..Len(s) : a # b => s[a] # s[b]

\* C22: within one call the point query of a parent is invoked exactly once
\* for each parent that passes the filter, whether it succeeds, returns no
\* rows or fails: as many point queries as parents dealt with, no parent
\* requested twice, one diagnostic for a parent that raised and none for the
\* others; the same holds for the workspaces of the workspace loop.
C22_ExactlyOnce ==
  /\ (op \in TwoLevelOps /\ pc \in {"level2", "returned"}) =>
       /\ ParentQueriesMade = Len(DoneParents)
       /\ NoRepeat(RequestedParents)
       /\ RequestedParents = SentParents(DoneParents)
       /\ \A k \in 1..Len(DoneParents) :
            ParentDiagLines(ParentIds(DoneParents)[k][2])
              = (IF Faults(Obj(DoneParents[k]).child) THEN 1 ELSE 0)
       /\ pc = "returned" => DoneParents = FanOutParents
  /\ (op \in BulkOps /\ pc \in {"level1", "filter", "level2", "returned"}) =>
       /\ NoRepeat(RequestedWorkspaces)
       /\ RequestedWorkspaces = SentWorkspaces(DoneWorkspaces)
       /\ op \in SingleLevelOps =>
            PointQueriesMade = 1 + (IF class = "BulkClient" THEN Len(DoneWorkspaces) ELSE 0)

\* C22 witness: a call has returned after the point queries of a parent that
\* raised, of a parent that returned no rows and of a parent that returned
\* rows.
C22_Witness ==
  /\ pc = "returned"
  /\ op \in TwoLevelOps
  /\ ParentQueriesMade = 3
  /\ \E a, b, c \in 1..Len(FanOutParents) :
       /\ Faults(Obj(FanOutParents[a]).child)
       /\ Obj(FanOutParents[b]).child = Ok(0)
       /\ Obj(FanOutParents[c]).child = Ok(MaxRows)

\* ------------------------------------------------ claims on termination
\* C23: provided every HTTP request returns or faults, a bulk operation whose
\* workspace enumeration succeeded eventually returns the accumulated table,
\* having visited every parent of the parent collection.
C23_TerminatesWithTable ==
  (op \in BulkOps /\ pc = "level1")
    ~> ( /\ pc = "returned"
         /\ result = (IF op \in SingleLevelOps THEN df_parents ELSE df_all)
         /\ DoneWorkspaces = Listed
         /\ DoneParents = (IF op \in TwoLevelOps THEN FanOutParents ELSE <<>>) )

\* ------------------------------------------------ claims on diagnostics
\* The lines printed for a workspace by the except clause of the workspace
\* loop.
WorkspaceDiagLines(id) ==
  Cardinality({k \in 1..Len(diag) :
                 diag[k].id = id /\ diag[k].msg = "Error processing workspace"})

\* The parent was skipped: its point query raised, got a status other than
\* 200 or returned no rows.
Skipped(a) == ~Succeeds(a) \/ a.n = 0

\* C24: every parent that is skipped, because its point query raised, got a
\* non-success status or returned an empty result, has a printed diagnostic
\* that carries its identifier.
C24_SkippedIsLogged ==
  (op \in BulkOps /\ pc = "returned") =>
    /\ \A k \in 1..Len(Listed) :
         (class = "PowerBIClient" \/ Skipped(upstream.ws[Listed[k]].resp)) =>
           WorkspaceDiagLines(WorkspaceIds[Listed[k]]) >= 1
    /\ op \in TwoLevelOps =>
         \A k \in 1..Len(FanOutParents) :
           Skipped(Obj(FanOutParents[k]).child) =>
             ParentDiagLines(ParentIds(FanOutParents)[k][2]) >= 1

\* --------------------------------------------- claims on the client object
\* A bulk operation is invoked in this step.
Invoked == pc' = "workspaces" /\ pc # "workspaces"

\* The tokens the token requests of this step returned, in order.
IssuedInStep ==
  SelectSeq(SubSeq(requests', Len(requests) + 1, Len(requests')),
            LAMBDA r : IsToken(r) /\ r.token # None)

\* C25 as stated: no step of a bulk operation or of its point queries changes
\* a field of the client, access_token included, and an invocation starts
\* from empty accumulators.
C25_Original ==
  [][ /\ class' = class
      /\ access_token' = access_token
      /\ Invoked => (df_parents' = EmptyDF /\ df_all' = EmptyDF)
    ]_vars

\* C25, amended: the only field of the client that a bulk operation or a
\* point query changes is access_token, which every successful token
\* acquisition overwrites with the token it returned and a failed one leaves
\* as it was; the data request of a point query carries the token acquired for
\* it, never the stored one; and every invocation starts from empty
\* accumulators, an empty request log and no diagnostics.
C25_OnlyTokenChanges ==
  [][ /\ class' = class
      /\ ~Invoked =>
           /\ access_token' = (IF IssuedInStep = <<>> THEN access_token
                               ELSE IssuedInStep[Len(IssuedInStep)].token)
           /\ \A k \in (Len(requests) + 1)..Len(requests') :
                ~IsToken(requests'[k]) =>
                  requests'[k].token = IssuedInStep[Len(IssuedInStep)].token
      /\ Invoked =>
           /\ access_token' = access_token
           /\ df_workspaces' = EmptyDF
           /\ df_parents' = EmptyDF
           /\ df_all' = EmptyDF
           /\ diag' = <<>>
           /\ requests' = <<>>
    ]_vars

\* C25 witness: a call has been invoked on a client that an earlier call
\* left with a stored token, and starts from empty accumulators.
C25_Witness ==
  /\ op \in TwoLevelOps
  /\ pc = "workspaces"
  /\ access_token = Tokens[2]
  /\ df_parents = EmptyDF
  /\ df_all = EmptyDF
  /\ requests = <<>>

\* ------------------------------------------- claims on what the table shows
\* C26: the outcome of a bulk operation does not show why a parent is
\* absent: between two upstream states that differ only in how the point
\* queries of some parents give no rows (a raised fault, a non-success status
\* or an empty result), the operation ends the same way and returns identical
\* tables.
C26_AbsenceIsOpaque ==
  (Finished /\ saved.op = op) =>
    /\ pc = saved.pc
    /\ result = saved.result
    /\ exc = saved.exc

\* C26 witness: an operation returned rows while the point query of one of
\* its parents raised; the upstream then came to answer that parent with a
\* non-success status or an empty listing, and the operation has returned
\* again, this time without a diagnostic.
C26_Witness ==
  /\ pc = "returned"
  /\ op \in TwoLevelOps
  /\ saved.op = op
  /\ Len(saved.result) > 0
  /\ diag = <<>>
  /\ \E k \in 1..Len(FanOutParents) : Obj(FanOutParents[k]).child \in {NotFound, Ok(0)}

\* ---------------------------------------------------- claims on the phases
\* The positions in the request log of the requests to an endpoint.
RequestsTo(url) == {k \in 1..Len(requests) : requests[k].url = url}

ChildRequests == {k \in 1..Len(requests) : requests[k].obj # None}

\* The parent object belongs to the workspace: the pair of a parent row.
PairOfOneRow(wid, oid) ==
  \E w \in 1..Len(WorkspaceIds) :
    /\ WorkspaceIds[w] = wid
    /\ \E j \in 1..Len(ObjectIds[w]) : ObjectIds[w][j] = oid

\* C27: a two-level operation works in phases.  The workspace listing is
\* requested first and exactly once; then the point query of every workspace
\* is made, one per workspace; the first request for a child is sent only
\* after all of those; and every child request names a workspace and a parent
\* object of that workspace, the pair of one parent row.
C27_Phases ==
  (op \in TwoLevelOps /\ pc \in {"level1", "filter", "level2", "returned"}) =>
    /\ IsToken(requests[1])
    /\ requests[2].url = "groups"
    /\ Cardinality(RequestsTo("groups")) = 1
    /\ pc = "level1" => ChildRequests = {}
    /\ pc \in {"filter", "level2", "returned"} =>
         /\ PointQueriesMade - Len(DoneParents) = 1 + Len(Listed)
         /\ RequestedWorkspaces = SentWorkspaces(Listed)
         /\ \A k \in ChildRequests :
              /\ \A j \in RequestsTo(ParentEndpoint(op)) : j < k
              /\ requests[k].url = ChildEndpoint(op)
              /\ PairOfOneRow(requests[k].ws, requests[k].obj)
         /\ RequestedParents = SentParents(DoneParents)

\* ----------------------------------------- claims on the PowerBIClient loops
\* The diagnostics of the workspace loop of PowerBIClient: one per workspace,
\* for the call that was made with one argument too few.
ArityDiags(ws) ==
  [k \in 1..Len(ws) |->
     [msg |-> "Error processing workspace", id |-> WorkspaceIds[ws[k]],
      e |-> "TypeError: missing 1 required positional argument"]]

DataRequests == SelectSeq(requests, LAMBDA r : ~IsToken(r))

\* C29: a refresh operation sends exactly one refresh request; once the
\* response is there it prints one line, the success line if and only if
\* the status is 202 (datasets) or 200 (dataflows) and the failure line with
\* the status code otherwise, and returns nothing; it never raises because
\* of a status.  refresh_tables_from_dataset with tables t1..tn sends the
\* request refresh_objects_from_dataset sends with [{table: t1}, ...,
\* {table: tn}], in the same order.
C29_RefreshReports ==
  /\ (op \in RefreshMethods /\ Finished) =>
       /\ Answer.kind = "http" =>
            /\ pc = "returned"
            /\ rtype = "NoneType"
            /\ Len(DataRequests) = 1
            /\ DataRequests[1].url = op
            /\ Len(diag) = 1
            /\ diag[1].what = (IF op = "refresh_dataflow" THEN "dataflow" ELSE "dataset")
            /\ IF Answer.status = (IF op = "refresh_dataflow" THEN 200 ELSE 202)
               THEN diag[1].msg = "Start refreshing"
               ELSE /\ diag[1].msg = "Failed to refresh"
                    /\ diag[1].e = ToString(Answer.status)
       /\ pc = "raised" =>
            /\ Answer.kind \in {"transport_fault", "token_fault"}
            /\ diag = <<>>
       /\ op = "refresh_tables_from_dataset" =>
            \A k \in 1..Len(DataRequests) :
              /\ DataRequests[k].body.json
              /\ \A j \in 1..Len(DataRequests[k].body.objects) :
                   DOMAIN DataRequests[k].body.objects[j] = {"table"}
       /\ op \in {"refresh_dataflow", "refresh_dataset"} =>
            \A k \in 1..Len(DataRequests) : DataRequests[k].body = NoBody
       /\ op = "refresh_tables_from_dataset" =>
            \A k \in 1..Len(DataRequests) :
              /\ Len(DataRequests[k].body.objects) = Len(argument)
              /\ \A j \in 1..Len(argument) :
                   DataRequests[k].body.objects[j] = [table |-> argument[j]]
       /\ op = "refresh_objects_from_dataset" =>
            \A k \in 1..Len(DataRequests) : DataRequests[k].body.objects = argument
  /\ \A tl \in TableLists :
       /\ RefreshBody("refresh_tables_from_dataset", tl)
            = RefreshBody("refresh_objects_from_dataset", TableObjects(tl))
       /\ Len(TableObjects(tl)) = Len(tl)
       /\ \A k \in 1..Len(tl) : TableObjects(tl)[k]["table"] = tl[k]

\* C29 witness: refresh_tables_from_dataset has returned after a 200, which
\* it reported as a failure, having sent two tables.
C29_Witness ==
  /\ op = "refresh_tables_from_dataset"
  /\ pc = "returned"
  /\ Answer.status = 200
  /\ diag[1].msg = "Failed to refresh"
  /\ DataRequests[1].body.objects = <<[table |-> "Customers"], [table |-> "Sales"]>>

\* --------------------------------------- claims on the connection details
FiveKeys == {"server", "database", "connectionString", "url", "path"}

AllNull(series) == \A k \in FiveKeys : series[k] = None

\* The record the items d of a dict give: the value of each of the five keys
\* that d has, null for the others.
DetailsOf(d) == [k \in FiveKeys |-> IF k \in DOMAIN d THEN d[k] ELSE None]

\* C30: extract_connection_details is total.  For every argument it returns
\* a record with exactly the five keys and never raises; a key the argument
\* does not have is null; the five are null for an argument that is neither
\* a string nor a dictionary, for a string that does not parse and for a
\* string that parses to something else than a dictionary; and a dictionary
\* and its string rendering give the same record.
C30_ExtractTotal ==
  op = "extract_connection_details" =>
    /\ pc = "returned"
    /\ exc = None
    /\ Len(result) = 1
    /\ DOMAIN result[1] = FiveKeys
    /\ argument.type = "dict" =>
         (result[1] = DetailsOf(argument.items) /\ diag = <<>>)
    /\ argument.type \notin {"str", "dict"} => (AllNull(result[1]) /\ diag = <<>>)
    /\ (argument.type = "str" /\ argument.text \in UnparsableTexts \cup NonDictTexts) =>
         (AllNull(result[1]) /\ Len(diag) = 1)
    /\ \A d \in Dicts :
         argument = PyStr(Str(d)) => (result[1] = DetailsOf(d) /\ diag = <<>>)

\* C30 witness: the string rendering of a dictionary with one of the five
\* keys and a key that is not one of them has been parsed back.
C30_Witness ==
  /\ op = "extract_connection_details"
  /\ pc = "returned"
  /\ argument = PyStr(Str([k \in {"server", "other"} |-> IF k = "server" THEN "srv" ELSE None]))
  /\ result[1]["server"] = "srv"
  /\ result[1]["database"] = None
  /\ diag = <<>>

====
